---- MODULE Spec2Model ----
(***************************************************************************)
(* Model of zippyshare_downloader/fetcher.py: the Info Resolver (get_info, *)
(* get_info_coro), the Batch Orchestrator (download, download_coro) and    *)
(* the single-URL functions (extract_info, extract_info_coro).             *)
(*                                                                         *)
(* One behaviour is one call of one entry point.  The collaborators that   *)
(* live outside fetcher.py (HTTP client, parse_info, finalization_info,    *)
(* File, extract_archived_file, archive_zip) are mocks whose answers are   *)
(* chosen when first asked and remembered per URL in `world`.              *)
(***************************************************************************)
EXTENDS Naturals, Sequences, FiniteSets

\* ------------------------------------------------------------------ bounds

\* Longest input URL sequence of a batch.
MaxUrls == 3

\* A page body is a concatenation of at most MaxSegs text segments.
MaxSegs == 3

\* ------------------------------------------------------------- page text

\* Text is a sequence of fragments; the two markers are the literal strings
\* of fetcher.py lines 39/68 and 43/72, cut at the fragment boundaries
\*   F = "File "  H = "has expired and "  N = "does not exist "
\*   A = "anymore "  S = "on this server"  X = any other text
ExpiredMarker == <<"F", "H", "N", "A", "S">>

NotFoundMarker == <<"F", "N", "S">>

\* The segments page bodies are built from: the two markers, pieces of them
\* (so that a marker can also arise across a segment boundary) and other text.
Segments == {ExpiredMarker, NotFoundMarker, <<"F", "N">>, <<"S">>, <<"X">>}

RECURSIVE BodiesUpTo(_)
BodiesUpTo(n) ==
    IF n = 0 THEN {<<>>}
    ELSE LET shorter == BodiesUpTo(n - 1)
         IN  shorter \cup {b \o s : b \in shorter, s \in Segments}

\* Python's `marker in text`: plain substring search.
Contains(text, marker) ==
    \E k \in 0..Len(text) :
        /\ k + Len(marker) <= Len(text)
        /\ SubSeq(text, k + 1, k + Len(marker)) = marker

\* requests' Response.raise_for_status(): 4xx and 5xx raise, nothing else.
StatusFails(status) == 400 <= status /\ status < 600

\* aiohttp's ClientResponse.raise_for_status(): raises unless 400 > status.
ClientStatusFails(status) == status >= 400

\* The statuses a server answers with; 600 is outside the 4xx and 5xx ranges.
Statuses == {200, 404, 503, 600}

\* ---------------------------------------------------------------- values

URLS == {"u1", "u2"}

RECURSIVE SeqsUpTo(_, _)
SeqsUpTo(S, n) ==
    IF n = 0 THEN {<<>>}
    ELSE LET shorter == SeqsUpTo(S, n - 1)
         IN  shorter \cup {Append(q, x) : q \in shorter, x \in S}

\* Local paths File.download can return: a directory and a file name.
Paths == {[dir |-> "d1", name |-> "a.bin"], [dir |-> "d1", name |-> "b.bin"],
          [dir |-> "d2", name |-> "a.bin"]}

NoPath == [dir |-> "", name |-> ""]

\* Values of the zip parameter: None, the empty string, a file name.
ZipNames == {"None", "", "bundle.zip"}

\* Python truthiness of the zip parameter (None and "" are falsy).
Truthy(z) == z \notin {"None", ""}

NoResp == [net |-> "unset", status |-> 0, text |-> <<>>]

NoInfo == [src |-> "none", fin |-> 0]

NoErr == [exc |-> "none", stage |-> "none"]

NoArchive == [exists |-> FALSE, path |-> NoPath, members |-> <<>>]

UnsetWorld ==
    [page |-> NoResp, parse |-> "unset", fin |-> "unset",
     xfer |-> [res |-> "unset", path |-> NoPath], extract |-> "unset"]

\* What a page fetch can answer: a transport failure, or a status and a body.
Responses(B) ==
    {[net |-> "fail", status |-> 0, text |-> <<>>]}
        \cup [net : {"ok"}, status : Statuses, text : B]

Outcomes == {"ok", "fail"}

\* parse_info(url, text): the raw field mapping of the page of `url`.
parse_info(url, text) == [src |-> url, fin |-> 0]

\* finalization_info(info): the mapping after one more normalisation pass.
finalization_info(inf) == [inf EXCEPT !.fin = @ + 1]

\* File(info): the File Entity wrapping `inf`, created for position `pos`.
File(inf, pos) == [info |-> inf, pos |-> pos]

VARIABLES
    api, urls, zip, unzip, dl,     \* the call: entry point and its arguments
    options,                       \* the call's **kwargs as the caller gave them
    kwargs,                        \* the callee's kwargs dict
    bodies, world,                 \* the mocks: bodies servable, answers given
    pc, i, r, info,                \* control: position, loop index, locals
    files, downloaded_files,       \* the result list and the accumulator
    zip_path, zi,                  \* the zip step: archive path, item index
    disk, archive,                 \* the filesystem
    session,                       \* the aiohttp ClientSession of get_info_coro
    trace, err, result,            \* calls made, exception raised, return value
    prev                           \* outcome of the counterpart variant's run

args == <<api, urls, zip, unzip, dl, options>>
mocks == <<bodies, world>>
accs == <<files, downloaded_files>>
zips == <<zip_path, zi>>
fs == <<disk, archive>>
vars == <<api, urls, zip, unzip, dl, options, kwargs, bodies, world, pc, i, r, info, files,
          downloaded_files, zip_path, zi, disk, archive, session, trace, err,
          result, prev>>

NoPrev == [set |-> FALSE, api |-> "none", err |-> NoErr, result |-> <<>>,
           calls |-> <<>>, disk |-> [p \in Paths |-> "absent"]]

\* The URL at the loop position (the only URL of a single-URL call).
url == urls[i]

\* Which thread a step of the running variant executes on.
Here == IF api \in {"get_info", "download", "extract_info"} THEN "caller" ELSE "loop"

\* One collaborator call (or body scan): what, for which position of the
\* input (or of the accumulator, in the zip step), on which thread, and the
\* state of the aiohttp session at that moment.
\* Where the blocking part of `await file.download_coro(**kwargs)` runs: the
\* transfer is awaited, the file write is offloaded to a worker.
download_coro_thread == "worker"

Call(op, pos, on) ==
    [op |-> op, pos |-> pos, on |-> on, sess |-> session, opts |-> {}]

Log(op) == trace' = Append(trace, Call(op, i, Here))

LogOn(op, on) == trace' = Append(trace, Call(op, i, on))

\* A download call, with the keyword options it is given.
LogDownload(on, kw) ==
    trace' = Append(trace, [Call("download", i, on) EXCEPT !.opts = kw])

\* A dict is a set of (key, value) pairs; d.get(key) is None for a missing key.
Get(d, key) ==
    IF \E e \in d : e[1] = key THEN (CHOOSE e \in d : e[1] = key)[2] ELSE "None"

\* d.pop(key)
Pop(d, key) == {e \in d : e[1] # key}

\* if kwargs.get('filename') is not None: kwargs.pop('filename')
DropFilename(d) == IF Get(d, "filename") # "None" THEN Pop(d, "filename") ELSE d

\* The keyword options callers pass: none; a folder and filename=None; a
\* folder and a filename.
OptionSets ==
    {{}, {<<"folder", "d">>, <<"filename", "None">>},
     {<<"folder", "d">>, <<"filename", "x.bin">>}}

\* The local path File.download / File.download_coro returned for `url`.
file_path == world[url].xfer.path

\* Python's d[k] = v on an insertion-ordered dict, kept as a sequence of
\* (file, path) items: a key already present keeps its place.
DictSet(d, k, v) ==
    IF \E n \in 1..Len(d) : d[n].file = k
    THEN [n \in 1..Len(d) |-> IF d[n].file = k THEN [file |-> k, path |-> v] ELSE d[n]]
    ELSE Append(d, [file |-> k, path |-> v])

\* The archive archive_zip(downloaded_files, zip) leaves behind: named `name`,
\* beside the first accumulated file, holding every accumulated file.
archive_zip_archive(items, name, d) ==
    [exists |-> TRUE,
     path |-> [dir |-> IF items = <<>> THEN "." ELSE items[1].path.dir, name |-> name],
     members |-> [n \in 1..Len(items) |-> [path |-> items[n].path, data |-> d[items[n].path]]]]

\* The disk archive_zip leaves behind: every accumulated original deleted.
archive_zip_disk(items, d) ==
    [p \in DOMAIN d |-> IF \E n \in 1..Len(items) : items[n].path = p THEN "absent" ELSE d[p]]

\* An exception leaves the running function; nothing in fetcher.py catches it.
Raise(exc, stage) ==
    /\ pc' = "raised"
    /\ err' = [exc |-> exc, stage |-> stage]

\* A mock answers `v` for field `f` of `u`: free the first time, the same after.
Reveal(u, f, v) ==
    /\ world[u][f] = UnsetWorld[f] \/ world[u][f] = v
    /\ world' = [world EXCEPT ![u][f] = v]

\* Where get_info / get_info_coro return to.
AfterResolve ==
    CASE api = "download" -> "dl_final"
      [] api = "extract_info" -> "ei_final"
      [] api = "download_coro" -> "dc_file"
      [] api = "extract_info_coro" -> "ec_file"
      [] OTHER -> "done"

Start(a, us, z, uz, d, B) ==
    /\ api = a /\ urls = us /\ zip = z /\ unzip = uz /\ dl = d
    /\ options \in (IF a \in {"get_info", "get_info_coro"} THEN {{}} ELSE OptionSets)
    /\ kwargs = options
    /\ bodies = B
    /\ world = [u \in URLS |-> UnsetWorld]
    /\ i = 1 /\ r = NoResp /\ info = NoInfo
    /\ files = <<>> /\ downloaded_files = <<>>
    /\ zip_path = NoPath /\ zi = 1
    /\ disk = [p \in Paths |-> "absent"] /\ archive = NoArchive
    /\ session = "none"
    /\ trace = <<>> /\ err = NoErr /\ result = <<>>
    /\ prev = NoPrev

\* ------------------------------------------------------ get_info (blocking)

\* r = requests.get(url)
get_info_get ==
    /\ pc = "gi_get"
    /\ \E resp \in Responses(bodies) :
        /\ Reveal(url, "page", resp)
        /\ Log("GET")
        /\ IF resp.net = "fail"
           THEN Raise("TransportError", "resolve") /\ UNCHANGED r
           ELSE r' = resp /\ pc' = "gi_status" /\ UNCHANGED err
    /\ UNCHANGED <<args, bodies, i, info, accs, zips, fs, session, result, prev, kwargs>>

\* Variant of get_info_status that fetches the page again on a failure status.
get_info_status_retry ==
    /\ pc = "gi_status"
    /\ pc' = IF StatusFails(r.status) THEN "gi_get" ELSE "gi_expired"
    /\ UNCHANGED <<args, mocks, i, r, info, accs, zips, fs, session, trace, err,
                   result, prev, kwargs>>

\* r.raise_for_status()
get_info_status ==
    /\ pc = "gi_status"
    /\ IF StatusFails(r.status)
       THEN Raise("HttpStatusError", "resolve")
       ELSE pc' = "gi_expired" /\ UNCHANGED err
    /\ UNCHANGED <<args, mocks, i, r, info, accs, zips, fs, session, trace,
                   result, prev, kwargs>>

\* Variant of get_info_expired with the two scans in the opposite order.
get_info_expired_after_notfound ==
    /\ pc = "gi_expired"
    /\ Log("scan_expired")
    /\ IF Contains(r.text, NotFoundMarker)
       THEN Raise("FileNotFoundError", "resolve")
       ELSE IF Contains(r.text, ExpiredMarker)
            THEN Raise("FileExpired", "resolve")
            ELSE pc' = "gi_notfound" /\ UNCHANGED err
    /\ UNCHANGED <<args, mocks, i, r, info, accs, zips, fs, session, result, prev, kwargs>>

\* if 'File has expired and does not exist anymore on this server' in r.text
get_info_expired ==
    /\ pc = "gi_expired"
    /\ Log("scan_expired")
    /\ IF Contains(r.text, ExpiredMarker)
       THEN Raise("FileExpired", "resolve")
       ELSE pc' = "gi_notfound" /\ UNCHANGED err
    /\ UNCHANGED <<args, mocks, i, r, info, accs, zips, fs, session, result, prev, kwargs>>

\* if 'File does not exist on this server' in r.text
get_info_notfound ==
    /\ pc = "gi_notfound"
    /\ Log("scan_notfound")
    /\ IF Contains(r.text, NotFoundMarker)
       THEN Raise("FileNotFoundError", "resolve")
       ELSE pc' = "gi_parse" /\ UNCHANGED err
    /\ UNCHANGED <<args, mocks, i, r, info, accs, zips, fs, session, result, prev, kwargs>>

\* parse_info(url, r.text)
get_info_parse ==
    /\ pc = "gi_parse"
    /\ \E o \in Outcomes :
        /\ Reveal(url, "parse", o)
        /\ Log("parse_info")
        /\ IF o = "fail"
           THEN Raise("ParserError", "resolve") /\ UNCHANGED info
           ELSE info' = parse_info(url, r.text) /\ pc' = "gi_final" /\ UNCHANGED err
    /\ UNCHANGED <<args, bodies, i, r, accs, zips, fs, session, result, prev, kwargs>>

\* return finalization_info(parse_info(url, r.text))
get_info_final ==
    /\ pc = "gi_final"
    /\ \E o \in Outcomes :
        /\ Reveal(url, "fin", o)
        /\ Log("finalization_info")
        /\ IF o = "fail"
           THEN Raise("FinalizerError", "resolve") /\ UNCHANGED <<info, result>>
           ELSE /\ info' = finalization_info(info)
                /\ pc' = AfterResolve
                /\ result' = IF api = "get_info" THEN <<info'>> ELSE result
                /\ UNCHANGED err
    /\ UNCHANGED <<args, bodies, i, r, accs, zips, fs, session, prev, kwargs>>

\* ------------------------------------------- get_info_coro (suspension-based)

\* async with aiohttp.ClientSession() as session: r = await session.get(url)
get_info_coro_get ==
    /\ pc = "gc_get"
    /\ \E resp \in Responses(bodies) :
        /\ Reveal(url, "page", resp)
        /\ trace' = Append(trace, [Call("GET", i, Here) EXCEPT !.sess = "open"])
        /\ IF resp.net = "fail"
           THEN Raise("TransportError", "resolve") /\ session' = "closed"
                /\ UNCHANGED r
           ELSE r' = [resp EXCEPT !.text = <<>>] /\ pc' = "gc_status"
                /\ session' = "open" /\ UNCHANGED err
    /\ UNCHANGED <<args, bodies, i, info, accs, zips, fs, result, prev, kwargs>>

\* Variant of get_info_coro_status that never raises.
get_info_coro_status_ignored ==
    /\ pc = "gc_status"
    /\ pc' = "gc_text"
    /\ UNCHANGED <<args, mocks, i, r, info, accs, zips, fs, session, trace, err,
                   result, prev, kwargs>>

\* r.raise_for_status()
get_info_coro_status ==
    /\ pc = "gc_status"
    /\ IF ClientStatusFails(r.status)
       THEN Raise("HttpStatusError", "resolve") /\ session' = "closed"
       ELSE pc' = "gc_text" /\ UNCHANGED <<err, session>>
    /\ UNCHANGED <<args, mocks, i, r, info, accs, zips, fs, trace, result, prev, kwargs>>

\* body_html = await r.text()
get_info_coro_text ==
    /\ pc = "gc_text"
    /\ r' = [r EXCEPT !.text = world[url].page.text]
    /\ pc' = "gc_expired"
    /\ UNCHANGED <<args, mocks, i, info, accs, zips, fs, session, trace, err,
                   result, prev, kwargs>>

\* if 'File has expired and does not exist anymore on this server' in body_html
get_info_coro_expired ==
    /\ pc = "gc_expired"
    /\ Log("scan_expired")
    /\ IF Contains(r.text, ExpiredMarker)
       THEN Raise("FileExpired", "resolve") /\ session' = "closed"
       ELSE pc' = "gc_notfound" /\ UNCHANGED <<err, session>>
    /\ UNCHANGED <<args, mocks, i, r, info, accs, zips, fs, result, prev, kwargs>>

\* Variant of get_info_coro_notfound whose scan never matches.
get_info_coro_notfound_never ==
    /\ pc = "gc_notfound"
    /\ Log("scan_notfound")
    /\ pc' = "gc_parse"
    /\ UNCHANGED <<args, mocks, i, r, info, accs, zips, fs, session, err, result, prev, kwargs>>

\* if 'File does not exist on this server' in body_html
get_info_coro_notfound ==
    /\ pc = "gc_notfound"
    /\ Log("scan_notfound")
    /\ IF Contains(r.text, NotFoundMarker)
       THEN Raise("FileNotFoundError", "resolve") /\ session' = "closed"
       ELSE pc' = "gc_parse" /\ UNCHANGED <<err, session>>
    /\ UNCHANGED <<args, mocks, i, r, info, accs, zips, fs, result, prev, kwargs>>

\* parse_info(url, body_html)
get_info_coro_parse ==
    /\ pc = "gc_parse"
    /\ \E o \in Outcomes :
        /\ Reveal(url, "parse", o)
        /\ Log("parse_info")
        /\ IF o = "fail"
           THEN Raise("ParserError", "resolve") /\ session' = "closed"
                /\ UNCHANGED info
           ELSE info' = parse_info(url, r.text) /\ pc' = "gc_final"
                /\ UNCHANGED <<err, session>>
    /\ UNCHANGED <<args, bodies, i, r, accs, zips, fs, result, prev, kwargs>>

\* Variant of get_info_coro_final that leaves the session as it is.
get_info_coro_final_leak ==
    /\ pc = "gc_final"
    /\ \E o \in Outcomes :
        /\ Reveal(url, "fin", o)
        /\ Log("finalization_info")
        /\ UNCHANGED session
        /\ IF o = "fail"
           THEN Raise("FinalizerError", "resolve") /\ UNCHANGED <<info, result>>
           ELSE /\ info' = finalization_info(info)
                /\ pc' = AfterResolve
                /\ result' = IF api = "get_info_coro" THEN <<info'>> ELSE result
                /\ UNCHANGED err
    /\ UNCHANGED <<args, bodies, i, r, accs, zips, fs, prev, kwargs>>

\* return await finalization_info(parse_info(url, body_html), True, session)
get_info_coro_final ==
    /\ pc = "gc_final"
    /\ \E o \in Outcomes :
        /\ Reveal(url, "fin", o)
        /\ Log("finalization_info")
        /\ session' = "closed"
        /\ IF o = "fail"
           THEN Raise("FinalizerError", "resolve") /\ UNCHANGED <<info, result>>
           ELSE /\ info' = finalization_info(info)
                /\ pc' = AfterResolve
                /\ result' = IF api = "get_info_coro" THEN <<info'>> ELSE result
                /\ UNCHANGED err
    /\ UNCHANGED <<args, bodies, i, r, accs, zips, fs, prev, kwargs>>

\* --------------------------------------------------- the resolver on its own

InitResolve ==
    /\ \E a \in {"get_info", "get_info_coro"}, u \in URLS :
        Start(a, <<u>>, "None", FALSE, FALSE, BodiesUpTo(MaxSegs))
    /\ pc = IF api = "get_info" THEN "gi_get" ELSE "gc_get"

NextResolve ==
    \/ get_info_get
    \/ get_info_status
    \/ get_info_expired
    \/ get_info_notfound
    \/ get_info_parse
    \/ get_info_final
    \/ get_info_coro_get
    \/ get_info_coro_status
    \/ get_info_coro_text
    \/ get_info_coro_expired
    \/ get_info_coro_notfound
    \/ get_info_coro_parse
    \/ get_info_coro_final

SpecResolve == InitResolve /\ [][NextResolve]_vars

\* ------------------------------------------------------ download (blocking)

\* Variant of download_enter without the zip/unzip check.
download_enter_unchecked ==
    /\ pc = "dl_enter"
    /\ pc' = "dl_loop"
    /\ UNCHANGED <<args, mocks, i, r, info, accs, zips, fs, session, trace, err,
                   result, prev, kwargs>>

\* if unzip and zip: raise ValueError(...); downloaded_files = {}; files = []
download_enter ==
    /\ pc = "dl_enter"
    /\ IF unzip /\ Truthy(zip)
       THEN Raise("ValueError", "config")
       ELSE pc' = "dl_loop" /\ UNCHANGED err
    /\ UNCHANGED <<args, mocks, i, r, info, accs, zips, fs, session, trace,
                   result, prev, kwargs>>

\* for url in urls: ... get_info(url)
download_loop ==
    /\ pc = "dl_loop"
    /\ pc' = IF i <= Len(urls) THEN "gi_get"
             ELSE IF Truthy(zip) THEN "dl_zip" ELSE "dl_return"
    /\ UNCHANGED <<args, mocks, i, r, info, accs, zips, fs, session, trace, err,
                   result, prev, kwargs>>

\* info = finalization_info(get_info(url))
download_final ==
    /\ pc = "dl_final"
    /\ Log("finalization_info")
    /\ \E o \in Outcomes :
        IF o = "fail"
        THEN Raise("FinalizerError", "resolve") /\ UNCHANGED info
        ELSE info' = finalization_info(info) /\ pc' = "dl_file" /\ UNCHANGED err
    /\ UNCHANGED <<args, mocks, i, r, accs, zips, fs, session, result, prev, kwargs>>

\* file = File(info); files.append(file)
download_file ==
    /\ pc = "dl_file"
    /\ Log("File")
    /\ files' = Append(files, File(info, i))
    /\ pc' = "dl_download"
    /\ UNCHANGED <<args, mocks, i, r, info, downloaded_files, zips, fs, session,
                   err, result, prev, kwargs>>

\* Variant of download_download that deletes the batch's earlier files when
\* a transfer fails.
download_download_rollback ==
    /\ pc = "dl_download"
    /\ kwargs' = DropFilename(kwargs)
    /\ LogDownload(Here, kwargs')
    /\ \E x \in [res : Outcomes, path : Paths] :
        /\ Reveal(url, "xfer", x)
        /\ IF x.res = "fail"
           THEN /\ Raise("TransportError", "download")
                /\ disk' = archive_zip_disk(downloaded_files, disk)
           ELSE /\ disk' = [disk EXCEPT ![x.path] = url]
                /\ pc' = "dl_record"
                /\ UNCHANGED err
    /\ UNCHANGED <<args, bodies, i, r, info, accs, zips, archive, session,
                   result, prev>>

\* if kwargs.get('filename') is not None: kwargs.pop('filename')
\* file_path = file.download(**kwargs)
\* (a transfer that fails leaves the files already on disk as they are)
download_download ==
    /\ pc = "dl_download"
    /\ kwargs' = DropFilename(kwargs)
    /\ LogDownload(Here, kwargs')
    /\ \E x \in [res : Outcomes, path : Paths] :
        /\ Reveal(url, "xfer", x)
        /\ IF x.res = "fail"
           THEN Raise("TransportError", "download") /\ UNCHANGED disk
           ELSE /\ disk' = [disk EXCEPT ![x.path] = url]
                /\ pc' = "dl_record"
                /\ UNCHANGED err
    /\ UNCHANGED <<args, bodies, i, r, info, accs, zips, archive, session,
                   result, prev>>

\* Variant of download_record whose dict treats Files of equal info as the
\* same key.
download_record_by_info ==
    /\ pc = "dl_record"
    /\ downloaded_files' =
        (LET f == files[Len(files)]
             d == downloaded_files
         IN  IF \E n \in 1..Len(d) : d[n].file.info = f.info
             THEN [n \in 1..Len(d) |->
                     IF d[n].file.info = f.info THEN [file |-> d[n].file, path |-> file_path]
                     ELSE d[n]]
             ELSE Append(d, [file |-> f, path |-> file_path]))
    /\ pc' = "dl_unzip"
    /\ UNCHANGED <<args, mocks, i, r, info, files, zips, fs, session, trace, err,
                   result, prev, kwargs>>

\* downloaded_files[file] = file_path
download_record ==
    /\ pc = "dl_record"
    /\ downloaded_files' = DictSet(downloaded_files, files[Len(files)], file_path)
    /\ pc' = "dl_unzip"
    /\ UNCHANGED <<args, mocks, i, r, info, files, zips, fs, session, trace, err,
                   result, prev, kwargs>>

\* if unzip: extract_archived_file(str(file_path))
download_unzip ==
    /\ pc = "dl_unzip"
    /\ IF unzip
       THEN /\ Log("extract")
            /\ \E o \in Outcomes :
                /\ Reveal(url, "extract", o)
                /\ IF o = "fail"
                   THEN Raise("ExtractError", "unzip") /\ UNCHANGED i
                   ELSE pc' = "dl_loop" /\ i' = i + 1 /\ UNCHANGED err
       ELSE pc' = "dl_loop" /\ i' = i + 1 /\ UNCHANGED <<world, trace, err>>
    /\ UNCHANGED <<args, bodies, r, info, accs, zips, fs, session, result, prev, kwargs>>

\* Variant of download_zip that puts the archive beside the last accumulated
\* file.
download_zip_last_dir ==
    /\ pc = "dl_zip"
    /\ IF downloaded_files = <<>>
       THEN Raise("IndexError", "zip") /\ UNCHANGED <<zips, archive, trace>>
       ELSE /\ zip_path' = [dir |-> downloaded_files[Len(downloaded_files)].path.dir,
                            name |-> zip]
            /\ archive' = [exists |-> TRUE, path |-> zip_path', members |-> <<>>]
            /\ trace' = Append(trace, Call("zip_open", 0, Here))
            /\ zi' = 1
            /\ pc' = "dl_zip_write"
            /\ UNCHANGED err
    /\ UNCHANGED <<args, mocks, i, r, info, accs, disk, session, result, prev, kwargs>>

\* path = list(downloaded_files.values())[0]; zip_path = path.parent / zip
\* with zipfile.ZipFile(zip_path, 'w') as zip_writer:
download_zip ==
    /\ pc = "dl_zip"
    /\ IF downloaded_files = <<>>
       THEN Raise("IndexError", "zip") /\ UNCHANGED <<zips, archive, trace>>
       ELSE /\ zip_path' = [dir |-> downloaded_files[1].path.dir, name |-> zip]
            /\ archive' = [exists |-> TRUE, path |-> zip_path', members |-> <<>>]
            /\ trace' = Append(trace, Call("zip_open", 0, Here))
            /\ zi' = 1
            /\ pc' = "dl_zip_write"
            /\ UNCHANGED err
    /\ UNCHANGED <<args, mocks, i, r, info, accs, disk, session, result, prev, kwargs>>

\* for file, path in downloaded_files.items(): zip_writer.write(path)
download_zip_write ==
    /\ pc = "dl_zip_write"
    /\ IF zi > Len(downloaded_files)
       THEN pc' = "dl_return" /\ UNCHANGED <<archive, trace, err>>
       ELSE LET path == downloaded_files[zi].path IN
            /\ trace' = Append(trace, Call("zip_write", zi, Here))
            /\ IF disk[path] = "absent"
               THEN Raise("FileNotFoundError", "zip") /\ UNCHANGED archive
               ELSE \E o \in Outcomes :
                     IF o = "fail"
                     THEN Raise("OSError", "zip") /\ UNCHANGED archive
                     ELSE /\ archive' = [archive EXCEPT !.members =
                                Append(@, [path |-> path, data |-> disk[path]])]
                          /\ pc' = "dl_zip_remove"
                          /\ UNCHANGED err
    /\ UNCHANGED <<args, mocks, i, r, info, accs, zips, disk, session, result, prev, kwargs>>

\* os.remove(path)
download_zip_remove ==
    /\ pc = "dl_zip_remove"
    /\ trace' = Append(trace, Call("remove", zi, Here))
    /\ disk' = [disk EXCEPT ![downloaded_files[zi].path] = "absent"]
    /\ zi' = zi + 1
    /\ pc' = "dl_zip_write"
    /\ UNCHANGED <<args, mocks, i, r, info, accs, zip_path, archive, session,
                   err, result, prev, kwargs>>

\* return files
download_return ==
    /\ pc = "dl_return"
    /\ result' = files
    /\ pc' = "done"
    /\ UNCHANGED <<args, mocks, i, r, info, accs, zips, fs, session, trace, err,
                   prev, kwargs>>

\* --------------------------------------------- download_coro (suspension-based)

\* if unzip and zip: raise ValueError(...); loop = ...; downloaded_files = {}; files = []
download_coro_enter ==
    /\ pc = "dc_enter"
    /\ IF unzip /\ Truthy(zip)
       THEN Raise("ValueError", "config")
       ELSE pc' = "dc_loop" /\ UNCHANGED err
    /\ UNCHANGED <<args, mocks, i, r, info, accs, zips, fs, session, trace,
                   result, prev, kwargs>>

\* Variant of download_coro_loop that bundles whenever zip is not None.
download_coro_loop_zip_not_none ==
    /\ pc = "dc_loop"
    /\ pc' = IF i <= Len(urls) THEN "gc_get"
             ELSE IF zip # "None" THEN "dc_zip" ELSE "dc_return"
    /\ UNCHANGED <<args, mocks, i, r, info, accs, zips, fs, session, trace, err,
                   result, prev, kwargs>>

\* for url in urls: info = await get_info_coro(url)
download_coro_loop ==
    /\ pc = "dc_loop"
    /\ pc' = IF i <= Len(urls) THEN "gc_get"
             ELSE IF Truthy(zip) THEN "dc_zip" ELSE "dc_return"
    /\ UNCHANGED <<args, mocks, i, r, info, accs, zips, fs, session, trace, err,
                   result, prev, kwargs>>

\* file = File(info); files.append(file)
download_coro_file ==
    /\ pc = "dc_file"
    /\ Log("File")
    /\ files' = Append(files, File(info, i))
    /\ pc' = "dc_download"
    /\ UNCHANGED <<args, mocks, i, r, info, downloaded_files, zips, fs, session,
                   err, result, prev, kwargs>>

\* if kwargs.get('filename') is not None: kwargs.pop('filename')
\* file_path = await file.download_coro(**kwargs)
download_coro_download ==
    /\ pc = "dc_download"
    /\ kwargs' = DropFilename(kwargs)
    /\ LogDownload(download_coro_thread, kwargs')
    /\ \E x \in [res : Outcomes, path : Paths] :
        /\ Reveal(url, "xfer", x)
        /\ IF x.res = "fail"
           THEN Raise("TransportError", "download") /\ UNCHANGED disk
           ELSE /\ disk' = [disk EXCEPT ![x.path] = url]
                /\ pc' = "dc_record"
                /\ UNCHANGED err
    /\ UNCHANGED <<args, bodies, i, r, info, accs, zips, archive, session,
                   result, prev>>

\* Variant of download_coro_record whose dict treats Files of equal info as
\* the same key.
download_coro_record_by_info ==
    /\ pc = "dc_record"
    /\ downloaded_files' =
        (LET f == files[Len(files)]
             d == downloaded_files
         IN  IF \E n \in 1..Len(d) : d[n].file.info = f.info
             THEN [n \in 1..Len(d) |->
                     IF d[n].file.info = f.info THEN [file |-> d[n].file, path |-> file_path]
                     ELSE d[n]]
             ELSE Append(d, [file |-> f, path |-> file_path]))
    /\ pc' = "dc_unzip"
    /\ UNCHANGED <<args, mocks, i, r, info, files, zips, fs, session, trace, err,
                   result, prev, kwargs>>

\* downloaded_files[file] = file_path
download_coro_record ==
    /\ pc = "dc_record"
    /\ downloaded_files' = DictSet(downloaded_files, files[Len(files)], file_path)
    /\ pc' = "dc_unzip"
    /\ UNCHANGED <<args, mocks, i, r, info, files, zips, fs, session, trace, err,
                   result, prev, kwargs>>

\* Variant of download_coro_unzip that runs the extraction on the scheduler's
\* own thread.
download_coro_unzip_inline ==
    /\ pc = "dc_unzip"
    /\ IF unzip
       THEN /\ LogOn("extract", Here)
            /\ \E o \in Outcomes :
                /\ Reveal(url, "extract", o)
                /\ IF o = "fail"
                   THEN Raise("ExtractError", "unzip") /\ UNCHANGED i
                   ELSE pc' = "dc_loop" /\ i' = i + 1 /\ UNCHANGED err
       ELSE pc' = "dc_loop" /\ i' = i + 1 /\ UNCHANGED <<world, trace, err>>
    /\ UNCHANGED <<args, bodies, r, info, accs, zips, fs, session, result, prev, kwargs>>

\* Variant of download_coro_unzip that goes on to the next URL without
\* running the extraction.
download_coro_unzip_skipped ==
    /\ pc = "dc_unzip"
    /\ pc' = "dc_loop" /\ i' = i + 1
    /\ UNCHANGED <<args, mocks, r, info, accs, zips, fs, session, trace, err,
                   result, prev, kwargs>>

\* if unzip: await loop.run_in_executor(None, lambda: _unzip_worker(file_path))
download_coro_unzip ==
    /\ pc = "dc_unzip"
    /\ IF unzip
       THEN /\ LogOn("extract", "worker")
            /\ \E o \in Outcomes :
                /\ Reveal(url, "extract", o)
                /\ IF o = "fail"
                   THEN Raise("ExtractError", "unzip") /\ UNCHANGED i
                   ELSE pc' = "dc_loop" /\ i' = i + 1 /\ UNCHANGED err
       ELSE pc' = "dc_loop" /\ i' = i + 1 /\ UNCHANGED <<world, trace, err>>
    /\ UNCHANGED <<args, bodies, r, info, accs, zips, fs, session, result, prev, kwargs>>

\* if zip: await loop.run_in_executor(None, lambda: archive_zip(downloaded_files, zip))
download_coro_zip ==
    /\ pc = "dc_zip"
    /\ trace' = Append(trace, Call("archive_zip", 0, "worker"))
    /\ \E o \in Outcomes :
        IF o = "fail"
        THEN Raise("OSError", "zip") /\ UNCHANGED fs
        ELSE /\ archive' = archive_zip_archive(downloaded_files, zip, disk)
             /\ disk' = archive_zip_disk(downloaded_files, disk)
             /\ pc' = "dc_return"
             /\ UNCHANGED err
    /\ UNCHANGED <<args, mocks, i, r, info, accs, zips, session, result, prev, kwargs>>

\* return files
download_coro_return ==
    /\ pc = "dc_return"
    /\ result' = files
    /\ pc' = "done"
    /\ UNCHANGED <<args, mocks, i, r, info, accs, zips, fs, session, trace, err,
                   prev, kwargs>>

\* -------------------------------------------------- extract_info (blocking)

\* info = finalization_info(get_info(url))
extract_info_final ==
    /\ pc = "ei_final"
    /\ Log("finalization_info")
    /\ \E o \in Outcomes :
        IF o = "fail"
        THEN Raise("FinalizerError", "resolve") /\ UNCHANGED info
        ELSE info' = finalization_info(info) /\ pc' = "ei_file" /\ UNCHANGED err
    /\ UNCHANGED <<args, mocks, i, r, accs, zips, fs, session, result, prev, kwargs>>

\* file = File(info); if download:
extract_info_file ==
    /\ pc = "ei_file"
    /\ Log("File")
    /\ files' = Append(files, File(info, i))
    /\ pc' = IF dl THEN "ei_download" ELSE "ei_return"
    /\ UNCHANGED <<args, mocks, i, r, info, downloaded_files, zips, fs, session,
                   err, result, prev, kwargs>>

\* file_path = file.download(**kwargs)
extract_info_download ==
    /\ pc = "ei_download"
    /\ LogDownload(Here, kwargs)
    /\ \E x \in [res : Outcomes, path : Paths] :
        /\ Reveal(url, "xfer", x)
        /\ IF x.res = "fail"
           THEN Raise("TransportError", "download") /\ UNCHANGED disk
           ELSE /\ disk' = [disk EXCEPT ![x.path] = url]
                /\ pc' = "ei_unzip"
                /\ UNCHANGED err
    /\ UNCHANGED <<args, bodies, i, r, info, accs, zips, archive, session,
                   result, prev, kwargs>>

\* if unzip: extract_archived_file(str(file_path))
extract_info_unzip ==
    /\ pc = "ei_unzip"
    /\ IF unzip
       THEN /\ Log("extract")
            /\ \E o \in Outcomes :
                /\ Reveal(url, "extract", o)
                /\ IF o = "fail"
                   THEN Raise("ExtractError", "unzip")
                   ELSE pc' = "ei_return" /\ UNCHANGED err
       ELSE pc' = "ei_return" /\ UNCHANGED <<world, trace, err>>
    /\ UNCHANGED <<args, bodies, i, r, info, accs, zips, fs, session, result, prev, kwargs>>

\* return file
extract_info_return ==
    /\ pc = "ei_return"
    /\ result' = files
    /\ pc' = "done"
    /\ UNCHANGED <<args, mocks, i, r, info, accs, zips, fs, session, trace, err,
                   prev, kwargs>>

\* ----------------------------------------- extract_info_coro (suspension-based)

\* Variant of extract_info_coro_file that downloads whatever `download` says.
extract_info_coro_file_always ==
    /\ pc = "ec_file"
    /\ Log("File")
    /\ files' = Append(files, File(info, i))
    /\ pc' = "ec_download"
    /\ UNCHANGED <<args, mocks, i, r, info, downloaded_files, zips, fs, session,
                   err, result, prev, kwargs>>

\* info = await get_info_coro(url); file = File(info); loop = ...; if download:
extract_info_coro_file ==
    /\ pc = "ec_file"
    /\ Log("File")
    /\ files' = Append(files, File(info, i))
    /\ pc' = IF dl THEN "ec_download" ELSE "ec_return"
    /\ UNCHANGED <<args, mocks, i, r, info, downloaded_files, zips, fs, session,
                   err, result, prev, kwargs>>

\* await loop.run_in_executor(None, lambda: process_download(file, kwargs, unzip))
\* process_download: file_path = file.download(**kwargs)
extract_info_coro_download ==
    /\ pc = "ec_download"
    /\ LogDownload("worker", kwargs)
    /\ \E x \in [res : Outcomes, path : Paths] :
        /\ Reveal(url, "xfer", x)
        /\ IF x.res = "fail"
           THEN Raise("TransportError", "download") /\ UNCHANGED disk
           ELSE /\ disk' = [disk EXCEPT ![x.path] = url]
                /\ pc' = "ec_unzip"
                /\ UNCHANGED err
    /\ UNCHANGED <<args, bodies, i, r, info, accs, zips, archive, session,
                   result, prev, kwargs>>

\* process_download: if unzip: extract_archived_file(str(file_path))
extract_info_coro_unzip ==
    /\ pc = "ec_unzip"
    /\ IF unzip
       THEN /\ LogOn("extract", "worker")
            /\ \E o \in Outcomes :
                /\ Reveal(url, "extract", o)
                /\ IF o = "fail"
                   THEN Raise("ExtractError", "unzip")
                   ELSE pc' = "ec_return" /\ UNCHANGED err
       ELSE pc' = "ec_return" /\ UNCHANGED <<world, trace, err>>
    /\ UNCHANGED <<args, bodies, i, r, info, accs, zips, fs, session, result, prev, kwargs>>

\* return file
extract_info_coro_return ==
    /\ pc = "ec_return"
    /\ result' = files
    /\ pc' = "done"
    /\ UNCHANGED <<args, mocks, i, r, info, accs, zips, fs, session, trace, err,
                   prev, kwargs>>

\* ------------------------------------------------------------------- runs

\* The small set of pages served in whole runs: one body of each kind.
RunBodies == {<<"X">>, ExpiredMarker, NotFoundMarker}

EntryPc(a) ==
    CASE a = "download" -> "dl_enter"
      [] a = "download_coro" -> "dc_enter"
      [] a = "extract_info" -> "gi_get"
      [] a = "extract_info_coro" -> "gc_get"
      [] a = "get_info" -> "gi_get"
      [] a = "get_info_coro" -> "gc_get"

Init ==
    /\ \/ \E a \in {"download", "download_coro"}, us \in SeqsUpTo(URLS, MaxUrls),
            z \in ZipNames, uz \in BOOLEAN :
            Start(a, us, z, uz, TRUE, RunBodies)
       \/ \E a \in {"extract_info", "extract_info_coro"}, u \in URLS,
            uz \in BOOLEAN, d \in BOOLEAN :
            Start(a, <<u>>, "None", uz, d, RunBodies)
    /\ pc = EntryPc(api)

Next ==
    \/ get_info_get
    \/ get_info_status
    \/ get_info_expired
    \/ get_info_notfound
    \/ get_info_parse
    \/ get_info_final
    \/ get_info_coro_get
    \/ get_info_coro_status
    \/ get_info_coro_text
    \/ get_info_coro_expired
    \/ get_info_coro_notfound
    \/ get_info_coro_parse
    \/ get_info_coro_final
    \/ download_enter
    \/ download_loop
    \/ download_final
    \/ download_file
    \/ download_download
    \/ download_record
    \/ download_unzip
    \/ download_zip
    \/ download_zip_write
    \/ download_zip_remove
    \/ download_return
    \/ download_coro_enter
    \/ download_coro_loop
    \/ download_coro_file
    \/ download_coro_download
    \/ download_coro_record
    \/ download_coro_unzip
    \/ download_coro_zip
    \/ download_coro_return
    \/ extract_info_final
    \/ extract_info_file
    \/ extract_info_download
    \/ extract_info_unzip
    \/ extract_info_return
    \/ extract_info_coro_file
    \/ extract_info_coro_download
    \/ extract_info_coro_unzip
    \/ extract_info_coro_return

Spec == Init /\ [][Next]_vars

\* --------------------------------------- both variants on the same mocks

Counterpart(a) ==
    CASE a = "download" -> "download_coro"
      [] a = "download_coro" -> "download"
      [] a = "extract_info" -> "extract_info_coro"
      [] a = "extract_info_coro" -> "extract_info"
      [] a = "get_info" -> "get_info_coro"
      [] a = "get_info_coro" -> "get_info"

Ended == pc \in {"done", "raised"}

\* After one variant has ended, its counterpart is called with the same
\* arguments on a fresh filesystem, the mocks answering as they did before.
run_counterpart ==
    /\ Ended
    /\ ~prev.set
    /\ prev' = [set |-> TRUE, api |-> api, err |-> err, result |-> result,
                calls |-> trace, disk |-> disk]
    /\ api' = Counterpart(api)
    /\ pc' = EntryPc(api')
    /\ i' = 1 /\ r' = NoResp /\ info' = NoInfo
    /\ files' = <<>> /\ downloaded_files' = <<>>
    /\ zip_path' = NoPath /\ zi' = 1
    /\ disk' = [p \in Paths |-> "absent"] /\ archive' = NoArchive
    /\ session' = "none"
    /\ trace' = <<>> /\ err' = NoErr /\ result' = <<>>
    /\ kwargs' = options
    /\ UNCHANGED <<urls, zip, unzip, dl, options, mocks>>

NextPair == Next \/ run_counterpart

SpecPair == Init /\ [][NextPair]_vars

\* Every step completes once its collaborator answers.
FairSpec == Spec /\ WF_vars(Next)

\* ----------------------------------------------------------------- claims

Batch == api \in {"download", "download_coro"}

Single == api \in {"extract_info", "extract_info_coro"}

\* How often `op` was called for position `pos`.
Count(op, pos) ==
    Cardinality({k \in 1..Len(trace) : trace[k].op = op /\ trace[k].pos = pos})

\* How often `op` was called at all.
Total(op) == Cardinality({k \in 1..Len(trace) : trace[k].op = op})

\* The page the mock served for the URL being resolved.
Page == world[url].page

Served == i <= Len(urls) /\ Page.net = "ok"

\* The status check of the running variant rejects the served page.
PageFails ==
    IF api \in {"get_info", "download", "extract_info"}
    THEN StatusFails(Page.status)
    ELSE ClientStatusFails(Page.status)

HasExpired == Contains(Page.text, ExpiredMarker)

HasNotFound == Contains(Page.text, NotFoundMarker)

Parsing == pc \in {"gi_parse", "gi_final", "gc_parse", "gc_final"}

\* C1 as stated: whenever the served page's body contains the expiry marker,
\* resolve ends with FileExpired (whatever else the response carries).
C1_ExpiredWheneverMarked ==
    (Served /\ HasExpired /\ Ended) => (pc = "raised" /\ err.exc = "FileExpired")

\* C1 amended: a response with a non-failure status whose body contains the
\* expiry marker makes resolve (get_info and get_info_coro) fail with
\* FileExpired, also when the not-found marker is present too; and whatever
\* the status, such a body never ends in FileNotFoundError, never reaches the
\* Parser and never succeeds.
C1_ExpiredPrecedence ==
    (Served /\ HasExpired) =>
        /\ pc # "done"
        /\ ~Parsing
        /\ err.exc # "FileNotFoundError"
        /\ (Ended /\ ~PageFails)
                => (pc = "raised" /\ err = [exc |-> "FileExpired", stage |-> "resolve"])

\* C1 witness: a body with both markers has been resolved to FileExpired.
C1_Witness ==
    /\ Served /\ HasExpired /\ HasNotFound
    /\ pc = "raised" /\ err.exc = "FileExpired"

\* C2 as stated: every body with the not-found marker and without the expiry
\* marker makes resolve end with FileNotFoundError.
C2_NotFoundWheneverMarked ==
    (Served /\ HasNotFound /\ ~HasExpired /\ Ended)
        => (pc = "raised" /\ err.exc = "FileNotFoundError")

\* C2 amended: a response with a non-failure status whose body contains the
\* not-found marker and not the expiry marker makes resolve (get_info and
\* get_info_coro) fail with FileNotFoundError; whatever the status, neither
\* the Parser nor the Finalizer is invoked for that URL.
C2_NotFound ==
    (Served /\ HasNotFound /\ ~HasExpired) =>
        /\ pc # "done"
        /\ ~Parsing
        /\ Count("parse_info", i) = 0
        /\ Count("finalization_info", i) = 0
        /\ (Ended /\ ~PageFails)
                => (pc = "raised" /\ err = [exc |-> "FileNotFoundError", stage |-> "resolve"])

\* C2 witness: get_info_coro has raised FileNotFoundError on a not-found body
\* in which the marker spans more than one segment of the page.
C2_Witness ==
    /\ api = "get_info_coro"
    /\ Served /\ HasNotFound /\ ~HasExpired
    /\ Len(Page.text) > Len(NotFoundMarker)
    /\ pc = "raised" /\ err.exc = "FileNotFoundError"

NothingTouched ==
    /\ trace = <<>>
    /\ \A p \in Paths : disk[p] = "absent"
    /\ ~archive.exists
    /\ session = "none"

\* C3: a batch run (download, download_coro) called with unzip true and a
\* non-empty zip name raises the configuration error as its first step: at
\* that moment, and ever after, no page was fetched, no collaborator called,
\* no file written and no archive created.
C3_ConfigErrorFirst ==
    (Batch /\ unzip /\ Truthy(zip)) =>
        /\ NothingTouched
        /\ pc \in {"dl_enter", "dc_enter", "raised"}
        /\ pc = "raised" => err = [exc |-> "ValueError", stage |-> "config"]

\* C3 witness: the configuration error was raised for a batch of two or more URLs.
C3_Witness ==
    /\ Batch /\ unzip /\ Truthy(zip) /\ Len(urls) >= 2
    /\ pc = "raised" /\ err.exc = "ValueError"

\* The run ended and no collaborator failed: every page resolved, every
\* transfer and extraction succeeded, the archive could be written.
AllSucceeded ==
    /\ Ended
    /\ err.stage \notin {"config", "resolve", "download", "unzip"}
    /\ err.exc # "OSError"

\* The local path the mock gave the download of position n.
PathOf(n) == world[urls[n]].xfer.path

\* C4: when a batch run (download, download_coro) is aborted by a failing
\* resolve or download of the URL at position k, the accumulator holds exactly
\* the k-1 earlier downloads in input order, each of their files is on disk
\* with the complete content of a download of this batch, nothing was called
\* for any position after k, no archive exists, and exactly k-1 downloads
\* completed.
C4_AbortAtFirstFailure ==
    (Batch /\ pc = "raised" /\ err.stage \in {"resolve", "download"}) =>
        /\ i <= Len(urls)
        /\ Len(downloaded_files) = i - 1
        /\ \A n \in 1..(i - 1) :
            /\ downloaded_files[n].file = files[n]
            /\ files[n].info.src = urls[n]
            /\ downloaded_files[n].path = PathOf(n)
            /\ disk[PathOf(n)] \in {urls[m] : m \in {q \in 1..(i - 1) : PathOf(q) = PathOf(n)}}
        /\ \A k \in 1..Len(trace) : trace[k].pos <= i /\ trace[k].pos >= 1
        /\ Total("download") = (IF err.stage = "download" THEN i ELSE i - 1)
        /\ Cardinality({p \in Paths : disk[p] # "absent"})
                = Cardinality({PathOf(n) : n \in 1..(i - 1)})
        /\ ~archive.exists

\* C4 witness: of three URLs the second failed to resolve, after the first
\* was downloaded.
C4_Witness ==
    /\ Batch /\ Len(urls) = 3 /\ i = 2
    /\ pc = "raised" /\ err.stage = "resolve"
    /\ Len(downloaded_files) = 1
    /\ disk[downloaded_files[1].path] = urls[1]
    /\ Total("GET") = 2

\* C5: a run of download with a zip name over one or more URLs, all of which
\* resolve and download, returns; afterwards no downloaded original is on
\* disk and the archive of that name exists and holds every downloaded file.
C5_ZipReplacesOriginals ==
    (api = "download" /\ Truthy(zip) /\ Len(urls) >= 1 /\ AllSucceeded) =>
        /\ pc = "done"
        /\ archive.exists /\ archive.path.name = zip
        /\ \A n \in 1..Len(urls) :
            /\ disk[PathOf(n)] = "absent"
            /\ \E m \in 1..Len(archive.members) : archive.members[m].path = PathOf(n)

IsCollab(e) ==
    e.op \in {"GET", "parse_info", "finalization_info", "download", "extract",
              "zip_open", "archive_zip"}

\* The collaborator invocations of a trace, in order: which one, for which URL.
Collab(tr) ==
    LET sel == SelectSeq(tr, IsCollab)
    IN  [k \in 1..Len(sel) |->
            [op |-> IF sel[k].op \in {"zip_open", "archive_zip"} THEN "zip" ELSE sel[k].op,
             pos |-> sel[k].pos]]

\* C6: the blocking and the suspension-based variant, called with the same
\* arguments on the same mocks, end with the same error outcome, the same
\* File Entities (the same ResolvedInfo per URL) and the same sequence of
\* collaborator invocations.  Stated for the runs without zip bundling, in
\* which every collaborator called is one both variants share.
C6_VariantsAgree ==
    (prev.set /\ Ended /\ ~Truthy(zip)) =>
        /\ err = prev.err
        /\ result = prev.result
        /\ Collab(trace) = Collab(prev.calls)

\* C7: a batch run (download, download_coro) in which no collaborator fails
\* returns, and what it returns has one File Entity per input URL, in input
\* order, whatever zip and unzip are and also for the empty input.
C7_OneFilePerUrl ==
    (Batch /\ AllSucceeded) =>
        /\ pc = "done"
        /\ Len(result) = Len(urls)
        /\ \A n \in 1..Len(urls) : result[n].pos = n /\ result[n].info.src = urls[n]

\* C8: extract_info and extract_info_coro download at most once and only when
\* `download` is true, extract at most once, only after a completed download
\* and only when `unzip` is true (so never when `download` is false); a failed
\* resolve starts no download; and a run that returns returns the File Entity
\* of the URL, after exactly one download when `download` is true and exactly
\* one extraction when `unzip` is true as well.
C8_ExtractInfo ==
    Single =>
        /\ Total("download") <= 1 /\ Total("extract") <= 1
        /\ ~dl => /\ Total("download") = 0 /\ Total("extract") = 0
                  /\ \A p \in Paths : disk[p] = "absent"
        /\ err.stage = "resolve" => Total("download") = 0 /\ files = <<>>
        /\ \A k \in 1..Len(trace) : trace[k].op = "extract" =>
                /\ unzip /\ dl
                /\ k > 1 /\ trace[k - 1].op = "download"
                /\ world[url].xfer.res = "ok"
        /\ pc = "done" =>
                /\ err = NoErr
                /\ Len(result) = 1 /\ result[1].info.src = urls[1]
                /\ Total("download") = (IF dl THEN 1 ELSE 0)
                /\ Total("extract") = (IF dl /\ unzip THEN 1 ELSE 0)
                /\ dl => disk[PathOf(1)] = urls[1]

\* C8 witness: extract_info_coro returned the File Entity without downloading
\* although unzip was set.
C8_Witness ==
    /\ api = "extract_info_coro" /\ ~dl /\ unzip
    /\ pc = "done" /\ Len(result) = 1 /\ Total("download") = 0

\* C9: for every File Entity constructed, the Parser and the Finalizer were
\* each invoked exactly once for its URL, and the entity wraps the Finalizer's
\* output on the Parser's output, which is what the Info Resolver returned.
C9_OnePassPipeline ==
    \A n \in 1..Len(files) :
        /\ Count("GET", n) = 1
        /\ Count("parse_info", n) = 1
        /\ Count("finalization_info", n) = 1
        /\ files[n].info = finalization_info(parse_info(urls[n], world[urls[n]].page.text))

\* At most one GET of the share page per input position, none beyond the input.
C10_OneGetPerUrl ==
    /\ \A n \in 1..(Len(urls) + 1) : Count("GET", n) <= 1
    /\ Total("GET") <= Len(urls)
    /\ Total("GET") <= i
    /\ (pc = "raised" /\ err.stage \in {"resolve", "download", "unzip"})
            => (Total("GET") = i /\ Count("GET", i) = 1)

\* C10: in every run each input position causes at most one GET of its share
\* page; once an exception was raised (transport failure, failure status,
\* expiry, not-found or any other) no further step is taken, so no request
\* follows; and every run ends, given that each collaborator call completes.
C10_SingleAttempt ==
    /\ []C10_OneGetPerUrl
    /\ [][pc # "raised"]_vars
    /\ <>Ended

\* C10 witness: the second of three URLs got a failure status on its one GET;
\* the run stopped there after two GETs.
C10_Witness ==
    /\ Len(urls) = 3 /\ i = 2
    /\ pc = "raised" /\ err.exc = "HttpStatusError"
    /\ Total("GET") = 2 /\ Count("GET", 2) = 1


\* The download calls made so far.
Downloads == {k \in 1..Len(trace) : trace[k].op = "download"}

\* C11: in a batch run (download, download_coro) no download call is given a
\* filename option, whatever the caller passed for it, and every other
\* option the caller passed is given to every download unchanged.
C11_FilenameNeverPassed ==
    Batch => \A k \in Downloads :
        /\ ~(\E e \in trace[k].opts : e[1] = "filename")
        /\ trace[k].opts = Pop(options, "filename")

\* C12: after a response with a failure status, resolve (get_info and
\* get_info_coro) scans the body for neither marker, calls neither the Parser
\* nor the Finalizer, never returns, and ends in the HTTP status error,
\* whatever the body contains.
C12_StatusBeforeScans ==
    (Served /\ PageFails) =>
        /\ pc \in {"gi_status", "gc_status", "raised"}
        /\ Count("scan_expired", i) = 0 /\ Count("scan_notfound", i) = 0
        /\ Count("parse_info", i) = 0 /\ Count("finalization_info", i) = 0
        /\ pc = "raised" => err = [exc |-> "HttpStatusError", stage |-> "resolve"]

\* C12 witness: get_info_coro raised the HTTP status error on a response
\* whose body carries both markers.
C12_Witness ==
    /\ api = "get_info_coro"
    /\ Served /\ PageFails /\ HasExpired /\ HasNotFound
    /\ pc = "raised" /\ err.exc = "HttpStatusError"


\* The downloads that have completed successfully so far.
Completed ==
    Cardinality(Downloads) - (IF pc = "raised" /\ err.stage = "download" THEN 1 ELSE 0)

Recording == pc \in {"dl_record", "dc_record"}

\* The accumulator holds one entry per completed download, in input order
\* (the entry of the download that has just returned is made by the next
\* statement, lines 117 / 243).
C13_Complete ==
    Batch =>
        /\ Len(downloaded_files) = Completed - (IF Recording THEN 1 ELSE 0)
        /\ \A n \in 1..Len(downloaded_files) :
            /\ downloaded_files[n].file = files[n]
            /\ downloaded_files[n].file.info.src = urls[n]
            /\ downloaded_files[n].path = PathOf(n)

\* A step only appends to the accumulator, and a step that raises leaves it
\* as it is.
C13_AppendOnlyStep ==
    Batch =>
        /\ Len(downloaded_files') >= Len(downloaded_files)
        /\ SubSeq(downloaded_files', 1, Len(downloaded_files)) = downloaded_files
        /\ pc' = "raised" => downloaded_files' = downloaded_files

\* C13: in a batch run (download, download_coro) the accumulator has exactly
\* one entry for each download completed so far, in input order; no step
\* removes or overwrites an entry, and a failing resolve or download of a
\* later URL leaves the earlier entries unchanged.
C13_AccumulatorAppendOnly ==
    /\ []C13_Complete
    /\ [][C13_AppendOnlyStep]_vars

\* C13 witness: the third download failed after two downloads of the same
\* URL; both entries are still there.
C13_Witness ==
    /\ Batch /\ Len(urls) = 3 /\ urls[1] = urls[2]
    /\ pc = "raised" /\ err.stage = "download" /\ i = 3
    /\ Len(downloaded_files) = 2


\* The calls made inside the URL loop, and those made for the n-th URL.
LoopOps ==
    {"GET", "scan_expired", "scan_notfound", "parse_info", "finalization_info",
     "File", "download", "extract"}

InLoop == {k \in 1..Len(trace) : trace[k].op \in LoopOps}

DoneBefore(k, op, n) == \E j \in 1..(k - 1) : trace[j].op = op /\ trace[j].pos = n

\* C14: in a batch run the URLs are processed one after the other: no call
\* for an earlier URL follows a call for a later one, and when the page of
\* URL n+1 is fetched, the resolve, the download and (when unzip is set) the
\* extraction of URL n have been made and have returned.
C14_StrictlySequential ==
    Batch =>
        /\ \A j, k \in InLoop : j < k => trace[j].pos <= trace[k].pos
        /\ \A k \in InLoop : trace[k].pos <= i
        /\ \A k \in InLoop :
            (trace[k].op = "GET" /\ trace[k].pos > 1) =>
                /\ DoneBefore(k, "finalization_info", trace[k].pos - 1)
                /\ DoneBefore(k, "download", trace[k].pos - 1)
                /\ unzip => DoneBefore(k, "extract", trace[k].pos - 1)
                /\ Len(downloaded_files) >= trace[k].pos - 1

\* C14 witness: download_coro with unzip set has started on its second URL.
C14_Witness ==
    /\ api = "download_coro" /\ unzip /\ Len(urls) >= 2
    /\ Count("GET", 2) = 1 /\ Count("extract", 1) = 1


\* C15: in a batch run an archive exists only when zip is truthy and every
\* input URL has been resolved and downloaded; it lies in the directory of
\* the first downloaded file under the name zip; and when the resolve or the
\* download of a URL fails there is no archive and every file downloaded so
\* far is still on disk.
C15_ZipAfterAllUrls ==
    Batch =>
        /\ archive.exists =>
            /\ Truthy(zip)
            /\ i = Len(urls) + 1
            /\ Len(downloaded_files) = Len(urls)
            /\ \A n \in 1..Len(urls) :
                Count("finalization_info", n) >= 1 /\ Count("download", n) = 1
            /\ downloaded_files # <<>> =>
                archive.path = [dir |-> downloaded_files[1].path.dir, name |-> zip]
        /\ (pc = "raised" /\ err.stage \in {"resolve", "download"}) =>
            /\ ~archive.exists
            /\ Total("zip_open") = 0 /\ Total("archive_zip") = 0 /\ Total("remove") = 0
            /\ \A n \in 1..Len(downloaded_files) :
                disk[downloaded_files[n].path] # "absent"

\* C15 witness: download has opened the archive after two downloads into
\* different directories.
C15_Witness ==
    /\ api = "download" /\ archive.exists /\ Len(urls) >= 2
    /\ downloaded_files[1].path.dir # downloaded_files[Len(downloaded_files)].path.dir


\* C16: in the zip step of download, when an original file is deleted every
\* accumulated file has already been written into the archive, and a failure
\* while writing a file leaves every original on disk.
C16_WriteAllThenDelete ==
    api = "download" =>
        /\ Total("remove") >= 1 => Len(archive.members) = Len(downloaded_files)
        /\ (pc = "raised" /\ err.stage = "zip") =>
            \A n \in 1..Len(downloaded_files) :
                disk[downloaded_files[n].path] # "absent"


\* The entry points that resolve through get_info_coro.
Suspending == api \in {"get_info_coro", "download_coro", "extract_info_coro"}

\* The positions of get_info_coro inside its `async with session` block.
InSession == {"gc_status", "gc_text", "gc_expired", "gc_notfound", "gc_parse", "gc_final"}

\* C17: get_info_coro calls the Finalizer while its session is open, and no
\* session is open outside get_info_coro: it is closed when the Finalizer has
\* returned and when the fetch, the status check, a marker scan, the Parser
\* or the Finalizer raised.
C17_SessionScoped ==
    Suspending =>
        /\ \A k \in 1..Len(trace) :
            trace[k].op = "finalization_info" => trace[k].sess = "open"
        /\ session = "open" => pc \in InSession
        /\ (Total("GET") >= 1 /\ pc \notin InSession) => session = "closed"
        /\ (pc = "raised" /\ err.stage = "resolve") => session = "closed"

\* C17 witness: the Finalizer was called with the open session, failed, and
\* the session is closed.
C17_Witness ==
    /\ api = "get_info_coro" /\ pc = "raised" /\ err.exc = "FinalizerError"
    /\ Total("finalization_info") = 1 /\ session = "closed"


\* The steps that block: writing the file, extracting it, building the archive.
BlockingOps == {"download", "extract", "archive_zip", "zip_open", "zip_write", "remove"}

\* C18: in download_coro and extract_info_coro every blocking step runs on a
\* worker, never on the scheduler's thread, and the coroutine waits for it:
\* when the worker's step fails, the failure is the last thing that happened.
C18_BlockingOnWorker ==
    api \in {"download_coro", "extract_info_coro"} =>
        /\ \A k \in 1..Len(trace) :
            trace[k].op \in BlockingOps => trace[k].on = "worker"
        /\ \A k \in 1..Len(trace) :
            trace[k].on = "worker" => trace[k].op \in BlockingOps
        /\ (pc = "raised" /\ err.stage \in {"download", "unzip", "zip"}) =>
            trace[Len(trace)].on = "worker"

\* C18 witness: download_coro has downloaded and extracted every file of a
\* non-empty batch.
C18_Witness ==
    /\ api = "download_coro" /\ unzip /\ pc = "done" /\ Len(urls) >= 1
    /\ Total("download") = Len(urls) /\ Total("extract") = Len(urls)


\* The last File has been appended to the result sequence and has no
\* accumulator entry (yet).
Unrecorded ==
    \/ pc \in {"dl_download", "dc_download", "dl_record", "dc_record"}
    \/ pc = "raised" /\ err.stage = "download"

\* C19: in a batch run the result sequence has as many elements as the
\* accumulator, or exactly one more; the accumulator's entries are the
\* leading Files of the result sequence in order, so the File without an
\* entry is the last one; it is there from before its download starts, and
\* stays there when the download fails.
C19_FilesLeadAccumulator ==
    Batch =>
        /\ Len(files) - Len(downloaded_files) \in {0, 1}
        /\ Len(files) = Len(downloaded_files) + 1 <=> Unrecorded
        /\ \A n \in 1..Len(downloaded_files) : downloaded_files[n].file = files[n]
        /\ Len(files) = Len(downloaded_files) + 1 =>
            \A n \in 1..Len(downloaded_files) :
                downloaded_files[n].file # files[Len(files)]
        /\ \A k \in Downloads :
            /\ DoneBefore(k, "File", trace[k].pos)
            /\ Len(files) >= trace[k].pos

\* C19 witness: the second download failed; two Files, one entry.
C19_Witness ==
    /\ Batch /\ pc = "raised" /\ err.stage = "download"
    /\ Len(files) = 2 /\ Len(downloaded_files) = 1
    /\ downloaded_files[1].file = files[1]


\* The calls of the zip bundling.
ZipOps == {"zip_open", "zip_write", "remove", "archive_zip"}

Bundled == \E k \in 1..Len(trace) : trace[k].op \in ZipOps

\* C20: no batch run both extracts a file and bundles; a file is extracted
\* only when unzip is truthy and after its own download has returned;
\* bundling happens only when zip is truthy; and with zip = "" and unzip set
\* there is no configuration error: the run is a plain unzip batch.
C20_PostProcessingExclusive ==
    Batch =>
        /\ ~(Total("extract") >= 1 /\ Bundled)
        /\ \A k \in 1..Len(trace) :
            trace[k].op = "extract" =>
                /\ unzip
                /\ DoneBefore(k, "download", trace[k].pos)
                /\ Len(downloaded_files) >= trace[k].pos
        /\ (Bundled \/ archive.exists) => Truthy(zip)
        /\ (zip = "" /\ unzip) =>
            /\ err.stage # "config"
            /\ ~Bundled
            /\ pc = "done" => Total("extract") = Len(urls)

\* C20 witness: a run with zip = "" and unzip set has finished, every file
\* extracted.
C20_Witness ==
    /\ Batch /\ zip = "" /\ unzip /\ pc = "done"
    /\ Len(urls) >= 2 /\ Total("extract") = Len(urls)

====
